---- MODULE Spec2Model ----
(***************************************************************************)
(* Model of the change-detection engine of src/python/s3_service.py:       *)
(*   - BucketListener._check_for_changes  (the snapshot differ)            *)
(*   - BucketListener.start / stop / _run (the poll loop)                  *)
(*   - S3Service.record_event / get_event_history / clear_event_history    *)
(*   - S3Service.start_bucket_listener / stop_all_listeners (the registry) *)
(*   - S3Service.create_bucket / _bucket_exists                            *)
(* Each part has its own specification over the shared variables:          *)
(*   SpecDiff, SpecHistory, SpecListener, SpecService, SpecRequests,       *)
(*   SpecBucket, SpecTick.                                                 *)
(***************************************************************************)
EXTENDS Integers, Sequences, FiniteSets, TLC

(* ------------------------------ bounds -------------------------------- *)

\* number of distinct object keys a listing can hold
MaxKeys == 2
\* capacity of the event history in the model (S3Service.MAX_EVENT_HISTORY, 100 in
\* the source, scaled down)
MaxHistory == 3
\* largest config.max_retries tried (0 included)
MaxRetries == 2
\* largest config.poll_interval tried, in seconds
MaxPollInterval == 2
\* number of poll threads one listener starts in one run of the model
MaxThreads == 2
\* number of BucketListener objects the service constructs in one run of the model
MaxListeners == 2
\* number of distinct bucket names create_bucket is called with
MaxBuckets == 3
\* largest config.retry_interval tried, in seconds (0 included)
MaxRetryInterval == 2

VARIABLES
  \* ---- snapshot differ (BucketListener._check_for_changes) ----
  last_objects,      \* BucketListener.last_objects: key -> object of the stored snapshot
  has_event_handler, \* config.event_handler is set
  dphase,            \* "ready" before the call, "checked" after it returned, "raised" after it raised
  prev_objects,      \* history variable: last_objects as it was when the call began
  listing,           \* history variable: what _list_objects returned to the call
  delivered,         \* history variable: the events handed to event_handler, in call order
  \* ---- event sink (S3Service.record_event / get_event_history / clear_event_history) ----
  event_history,     \* S3Service.event_history, index 1 is the front of the list
  rec,               \* per recording thread: where it is inside record_event
  reader,            \* the thread inside get_event_history: position, iterator index, events built
  next_event,        \* history variable: the number the next recorded event gets
  first_event,       \* history variable: next_event as it was when the history was last emptied
  index_errors,      \* history variable: has a pop() on the empty list raised IndexError
  \* ---- poll loop (BucketListener.start / stop / _run) ----
  cfg,               \* BucketListener.config: max_retries, poll_interval, error_handler set or not
  running,           \* BucketListener.running
  thread,            \* BucketListener.thread: 0 is None, else the number of the poll thread
  caller,            \* the thread that calls start() and stop(): where it is, and how its last start() ended
  poll,              \* per poll thread: position in _run, retries, loop index, and this tick's history
  \* ---- listener registry (S3Service.start_bucket_listener / stop_all_listeners) ----
  default_bucket,    \* S3Service.default_bucket is a non-empty name
  listeners,         \* S3Service.listeners, a list of BucketListener objects
  lst,               \* per BucketListener object of the service: constructed, running, poll thread alive
  svc_call,          \* history variable: the last service call, its arguments and what it did
  req,               \* per request thread: where it is inside start_bucket_listener_for_bucket
  \* ---- bucket creation (S3Service.create_bucket / _bucket_exists) ----
  store,             \* the object store: the names of the buckets that exist in it
  cb                 \* the create_bucket call: position, argument, requests issued, outcome

diffVars == <<last_objects, has_event_handler, dphase, prev_objects, listing, delivered>>

histVars == <<event_history, rec, reader, next_event, first_event, index_errors>>

lsnVars == <<cfg, running, thread, caller, poll>>

svcVars == <<default_bucket, listeners, lst, svc_call, req>>

bktVars == <<store, cb>>

vars == <<diffVars, histVars, lsnVars, svcVars, bktVars>>

\* what an action of one part leaves alone
notDiff == <<histVars, lsnVars, svcVars, bktVars>>
notHist == <<diffVars, lsnVars, svcVars, bktVars>>
notLsn == <<diffVars, histVars, svcVars, bktVars>>
notSvc == <<diffVars, histVars, lsnVars, bktVars>>
notBkt == <<diffVars, histVars, lsnVars, svcVars>>

(* ------------------------- objects and snapshots ---------------------- *)

Keys == 1..MaxKeys

\* the bucket the listener watches (config.bucket or service.default_bucket)
Bucket == "bucket"

\* Size of an object: the ETag is a hash of the content, so the content length
\* is a function of it.
SizeOf(etag) == 10 * etag

\* The values of obj['ETag'] and obj['LastModified']. The code compares ETags
\* for equality and LastModified by order only (line 161); two values of each
\* give every outcome of the two comparisons.
ETags == 1..2
Times == 1..2

\* One entry of list_objects_v2()['Contents'], without its key.
Objects ==
  { [Size |-> SizeOf(e), LastModified |-> t, ETag |-> e] : e \in ETags, t \in Times }

\* A listing keyed by obj['Key'] (keys of one listing are unique).
Snapshots == UNION { [ks -> Objects] : ks \in SUBSET Keys }

EmptySnapshot == [k \in {} |-> 0]

(* ------------------------------ S3Event ------------------------------- *)

OBJECT_CREATED == "ObjectCreated"
OBJECT_DELETED == "ObjectDeleted"
OBJECT_MODIFIED == "ObjectModified"

S3Event(event_type, bucket, key, size, last_modified, e_tag) ==
  [event_type |-> event_type, bucket |-> bucket, key |-> key, size |-> size,
   last_modified |-> last_modified, e_tag |-> e_tag]

(* ----------------------- _check_for_changes --------------------------- *)

\* IsModified without the LastModified comparison (a seeded fault for C4)
IsModifiedETagOnly(current_obj, old_obj) ==
  current_obj.ETag # old_obj.ETag

\* line 161: the test that classifies a key present in both snapshots
IsModified(current_obj, old_obj) ==
  current_obj.ETag # old_obj.ETag \/ current_obj.LastModified > old_obj.LastModified

\* DeletedEvent without the attributes of the old object (a seeded fault for C3)
DeletedEventBlank(bucket, key, old_obj) ==
  S3Event(OBJECT_DELETED, bucket, key, 0, 0, 0)

\* lines 133-140
DeletedEvent(bucket, key, old_obj) ==
  S3Event(OBJECT_DELETED, bucket, key, old_obj.Size, old_obj.LastModified, old_obj.ETag)

\* lines 148-155
CreatedEvent(bucket, key, current_obj) ==
  S3Event(OBJECT_CREATED, bucket, key, current_obj.Size, current_obj.LastModified,
          current_obj.ETag)

\* lines 163-170
ModifiedEvent(bucket, key, current_obj) ==
  S3Event(OBJECT_MODIFIED, bucket, key, current_obj.Size, current_obj.LastModified,
          current_obj.ETag)

\* lines 130-142: the first loop, over the keys of last_objects from key k on
\* (a dict iterates in insertion order, which is the listing's key order)
RECURSIVE DeletedEventsFrom(_, _, _, _)
DeletedEventsFrom(k, bucket, old, current_map) ==
  IF k > MaxKeys THEN <<>>
  ELSE (IF k \in DOMAIN old /\ k \notin DOMAIN current_map
          THEN <<DeletedEvent(bucket, k, old[k])>>
          ELSE <<>>)
       \o DeletedEventsFrom(k + 1, bucket, old, current_map)

\* lines 145-172: the second loop, over the keys of current_map from key k on
RECURSIVE CurrentEventsFrom(_, _, _, _)
CurrentEventsFrom(k, bucket, old, current_map) ==
  IF k > MaxKeys THEN <<>>
  ELSE (IF k \notin DOMAIN current_map THEN <<>>
        ELSE IF k \notin DOMAIN old
          THEN <<CreatedEvent(bucket, k, current_map[k])>>
        ELSE IF IsModified(current_map[k], old[k])
          THEN <<ModifiedEvent(bucket, k, current_map[k])>>
        ELSE <<>>)
       \o CurrentEventsFrom(k + 1, bucket, old, current_map)

\* the events _check_for_changes builds, in the order it builds them
ChangeEvents(bucket, old, current_map) ==
  DeletedEventsFrom(1, bucket, old, current_map)
    \o CurrentEventsFrom(1, bucket, old, current_map)

\* Deliver that hands every event to the handler twice (a seeded fault for C19)
DeliverTwice(handler_set, events) == IF handler_set THEN events \o events ELSE <<>>

\* lines 141-142, 156-157, 171-172: an event reaches the handler only when one is set
Deliver(handler_set, events) == IF handler_set THEN events ELSE <<>>

(* --------------------------- the event sink --------------------------- *)

\* S3Service.MAX_EVENT_HISTORY (line 203)
MAX_EVENT_HISTORY == MaxHistory

\* how many events the poll threads record in one run of the model
MaxRecords == MAX_EVENT_HISTORY + 2

\* the threads that call record_event (the event handlers of poll threads)
Recorders == {"poll1", "poll2"}

\* line 452: self.event_history.insert(0, event)
HistoryInsert(history, event) == <<event>> \o history

\* OverCapacity off by one: evicts only from capacity + 2 on (a seeded fault for C1)
OverCapacityOffByOne(history) == Len(history) > MAX_EVENT_HISTORY + 1

\* line 454: len(self.event_history) > self.MAX_EVENT_HISTORY
OverCapacity(history) == Len(history) > MAX_EVENT_HISTORY

\* line 455: self.event_history.pop() on a list that is not empty
HistoryPop(history) == SubSeq(history, 1, Len(history) - 1)

\* the variables of the event sink, for the specifications that do not use it
HistUnused ==
  /\ event_history = <<>>
  /\ rec = [t \in Recorders |-> "unused"]
  /\ reader = [pc |-> "unused", index |-> 0, events |-> <<>>]
  /\ next_event = 1
  /\ first_event = 1
  /\ index_errors = FALSE

(* ---------------------------- the poll loop --------------------------- *)

Threads == 1..MaxThreads

\* a poll thread that start() has not created yet
\* (from tick_once on: history of the tick for SpecTick, which has the bucket's
\* contents; the other specifications leave these fields as they are here)
Unborn ==
  [pc |-> "unborn", retries |-> 0, i |-> 0, first_failed |-> FALSE, attempts |-> 0,
   succeeded |-> FALSE, err_calls |-> 0, err_logs |-> 0, saw_stop |-> FALSE,
   tick_once |-> {}, tick_twice |-> {}, raised_last |-> FALSE, raised_before |-> FALSE,
   late_attempts |-> 0, slept |-> 0, blind |-> 0, start_stale |-> {},
   att_outcome |-> "none", att_listing |-> EmptySnapshot, att_delivered |-> <<>>]

\* the variables of the poll loop, for the specifications that do not use it
LsnUnused ==
  /\ cfg = [max_retries |-> 0, poll_interval |-> 1, has_error_handler |-> FALSE]
  /\ running = FALSE
  /\ thread = 0
  /\ caller = [pc |-> "unused", last_start |-> "none", err_calls |-> 0, born_before |-> 0]
  /\ poll = [t \in Threads |-> Unborn]

(* ------------------------- the listener registry ---------------------- *)

ListenerIds == 1..MaxListeners

\* a BucketListener object the service has not constructed yet
NotConstructed == [constructed |-> FALSE, running |-> FALSE, alive |-> FALSE]

NoCall ==
  [op |-> "none", has_event_handler |-> FALSE, has_bucket |-> FALSE, outcome |-> "none",
   listings |-> 0, listing_failed |-> FALSE]

\* the request threads that call start_bucket_listener_for_bucket
Requests == {"req1", "req2"}

\* a request thread outside start_bucket_listener_for_bucket
NoRequest == [pc |-> "idle", bucket_given |-> FALSE]

\* the variables of the registry, for the specifications that do not use it
SvcUnused ==
  /\ default_bucket = TRUE
  /\ listeners = <<>>
  /\ lst = [id \in ListenerIds |-> NotConstructed]
  /\ svc_call = NoCall
  /\ req = [r \in Requests |-> NoRequest]

(* --------------------------- bucket creation -------------------------- *)

BucketNames == 1..MaxBuckets

\* no create_bucket call has been made
NoCreate ==
  [pc |-> "idle", name |-> 0, exists |-> "none", create_requests |-> 0,
   create_answer |-> "none", outcome |-> "none"]

\* the variables of bucket creation, for the specifications that do not use it
BktUnused ==
  /\ store = {}
  /\ cb = NoCreate

(* ====================== specification SpecDiff ======================== *)

\* the variables of the differ, for the specifications that do not use it
DiffUnused ==
  /\ last_objects = EmptySnapshot
  /\ has_event_handler = TRUE
  /\ dphase = "unused"
  /\ prev_objects = EmptySnapshot
  /\ listing = EmptySnapshot
  /\ delivered = <<>>

DiffInit ==
  /\ BktUnused
  /\ HistUnused
  /\ LsnUnused
  /\ SvcUnused
  /\ last_objects \in Snapshots
  /\ has_event_handler \in BOOLEAN
  /\ dphase = "ready"
  /\ prev_objects = last_objects
  /\ listing = EmptySnapshot
  /\ delivered = <<>>

\* _check_for_changes, the listing succeeds and returns current_map
CheckForChanges(current_map) ==
  /\ dphase = "ready"
  /\ listing' = current_map
  /\ prev_objects' = last_objects
  /\ delivered' = Deliver(has_event_handler, ChangeEvents(Bucket, last_objects, current_map))
  /\ last_objects' = current_map
  /\ dphase' = "checked"
  /\ UNCHANGED <<has_event_handler, notDiff>>

\* _check_for_changes, the listing succeeds and the n-th call of event_handler
\* raises: the exception leaves the method, line 175 is not reached
CheckForChangesHandlerRaises(current_map, n) ==
  /\ dphase = "ready"
  /\ has_event_handler
  /\ n \in 1..Len(ChangeEvents(Bucket, last_objects, current_map))
  /\ listing' = current_map
  /\ prev_objects' = last_objects
  /\ delivered' = SubSeq(ChangeEvents(Bucket, last_objects, current_map), 1, n)
  /\ dphase' = "handler_raised"
  /\ UNCHANGED <<last_objects, has_event_handler, notDiff>>

\* _check_for_changes, _list_objects raises (line 126): nothing else runs
CheckForChangesRaises ==
  /\ dphase = "ready"
  /\ dphase' = "raised"
  /\ UNCHANGED <<last_objects, has_event_handler, prev_objects, listing, delivered, notDiff>>

DiffNext ==
  \/ \E current_map \in Snapshots : CheckForChanges(current_map)
  \/ \E current_map \in Snapshots, n \in 1..MaxKeys :
       CheckForChangesHandlerRaises(current_map, n)
  \/ CheckForChangesRaises

SpecDiff == DiffInit /\ [][DiffNext]_vars

(* ----------------------- properties of the differ --------------------- *)

\* the positions of delivered holding an event of this type for this key
EventsFor(event_type, key) ==
  { i \in 1..Len(delivered) :
      delivered[i].event_type = event_type /\ delivered[i].key = key }

\* the delivered event at each of these positions carries the attributes of obj
Carries(positions, obj) ==
  \A i \in positions :
    /\ delivered[i].bucket = Bucket
    /\ delivered[i].size = obj.Size
    /\ delivered[i].last_modified = obj.LastModified
    /\ delivered[i].e_tag = obj.ETag

\* C3: a successful _check_for_changes with an event handler set delivers, for
\* each key of the stored snapshot missing from the listing, exactly one
\* ObjectDeleted event with the stored object's Size/LastModified/ETag; for each
\* key of the listing missing from the stored snapshot, exactly one ObjectCreated
\* event with the listed object's attributes; and no other Deleted or Created event.
C3_DeletedCreatedExactlyOnce ==
  (dphase = "checked" /\ has_event_handler) =>
    \A k \in Keys :
      /\ Cardinality(EventsFor(OBJECT_DELETED, k))
           = (IF k \in DOMAIN prev_objects /\ k \notin DOMAIN listing THEN 1 ELSE 0)
      /\ Cardinality(EventsFor(OBJECT_CREATED, k))
           = (IF k \in DOMAIN listing /\ k \notin DOMAIN prev_objects THEN 1 ELSE 0)
      /\ (k \in DOMAIN prev_objects => Carries(EventsFor(OBJECT_DELETED, k), prev_objects[k]))
      /\ (k \in DOMAIN listing => Carries(EventsFor(OBJECT_CREATED, k), listing[k]))

\* a check that saw one key disappear and another appear
C3_Witness ==
  /\ dphase = "checked" /\ has_event_handler
  /\ \E k1, k2 \in Keys :
       /\ k1 \in DOMAIN prev_objects /\ k1 \notin DOMAIN listing
       /\ k2 \in DOMAIN listing /\ k2 \notin DOMAIN prev_objects
       /\ EventsFor(OBJECT_DELETED, k1) # {}
       /\ EventsFor(OBJECT_CREATED, k2) # {}

\* C4: for a key in both the stored snapshot and the listing, a successful
\* _check_for_changes delivers exactly one ObjectModified event when the ETag
\* differs or the listed LastModified is strictly greater than the stored one,
\* and no event at all for that key otherwise; a listing equal to the stored
\* snapshot delivers nothing.
C4_ModifiedExactlyWhenChanged ==
  (dphase = "checked" /\ has_event_handler) =>
    /\ \A k \in DOMAIN prev_objects \cap DOMAIN listing :
         LET changed == \/ listing[k].ETag # prev_objects[k].ETag
                        \/ listing[k].LastModified > prev_objects[k].LastModified
         IN /\ Cardinality(EventsFor(OBJECT_MODIFIED, k)) = (IF changed THEN 1 ELSE 0)
            /\ Carries(EventsFor(OBJECT_MODIFIED, k), listing[k])
            /\ EventsFor(OBJECT_DELETED, k) = {}
            /\ EventsFor(OBJECT_CREATED, k) = {}
    /\ (listing = prev_objects => delivered = <<>>)

\* a check over a key whose ETag is unchanged and whose LastModified advanced,
\* next to a key that did not change at all
C4_Witness ==
  /\ dphase = "checked" /\ has_event_handler
  /\ \E k1, k2 \in DOMAIN prev_objects \cap DOMAIN listing :
       /\ listing[k1].ETag = prev_objects[k1].ETag
       /\ listing[k1].LastModified > prev_objects[k1].LastModified
       /\ EventsFor(OBJECT_MODIFIED, k1) # {}
       /\ listing[k2] = prev_objects[k2]
       /\ EventsFor(OBJECT_MODIFIED, k2) = {}

(* ===================== specification SpecHistory ====================== *)
(* record_event runs in the poll threads (it is the event handler that     *)
(* start_bucket_listener_for_bucket installs); get_event_history and       *)
(* clear_event_history run in request threads. The code takes no lock, so   *)
(* the threads interleave between any two operations on the list; one       *)
(* operation on a list (insert, len, pop, clear, one step of an iterator)   *)
(* is atomic.                                                               *)

HistInit ==
  /\ BktUnused
  /\ DiffUnused
  /\ LsnUnused
  /\ SvcUnused
  /\ event_history = <<>>
  /\ rec = [t \in Recorders |-> "idle"]
  /\ reader = [pc |-> "idle", index |-> 0, events |-> <<>>]
  /\ next_event = 1
  /\ first_event = 1
  /\ index_errors = FALSE

\* record_event, line 452. The event is numbered in the order of the inserts.
RecordInsert(t) ==
  /\ rec[t] = "idle"
  /\ next_event <= MaxRecords
  /\ event_history' = HistoryInsert(event_history, next_event)
  /\ next_event' = next_event + 1
  /\ rec' = [rec EXCEPT ![t] = "inserted"]
  /\ UNCHANGED <<reader, first_event, index_errors, notHist>>

\* record_event, line 454: the length test; the method returns when it is false
RecordCheckLength(t) ==
  /\ rec[t] = "inserted"
  /\ rec' = [rec EXCEPT ![t] = IF OverCapacity(event_history) THEN "evict" ELSE "idle"]
  /\ UNCHANGED <<event_history, reader, next_event, first_event, index_errors, notHist>>

\* record_event, line 455: pop() removes the last entry, or raises IndexError
\* on an empty list; either way the method is over
RecordPop(t) ==
  /\ rec[t] = "evict"
  /\ IF event_history = <<>>
       THEN /\ index_errors' = TRUE
            /\ UNCHANGED event_history
       ELSE /\ event_history' = HistoryPop(event_history)
            /\ UNCHANGED index_errors
  /\ rec' = [rec EXCEPT ![t] = "idle"]
  /\ UNCHANGED <<reader, next_event, first_event, notHist>>

\* clear_event_history, line 481
ClearEventHistory ==
  /\ event_history' = <<>>
  /\ first_event' = next_event
  /\ UNCHANGED <<rec, reader, next_event, index_errors, notHist>>

\* get_event_history, lines 465-466: a new call creates the list iterator
ReadBegin ==
  /\ reader.pc \in {"idle", "returned"}
  /\ reader' = [pc |-> "iterating", index |-> 0, events |-> <<>>]
  /\ UNCHANGED <<event_history, rec, next_event, first_event, index_errors, notHist>>

\* get_event_history, lines 466-474: one step of the for loop. The iterator
\* yields the entry at its index while the index is inside the list.
ReadNext ==
  /\ reader.pc = "iterating"
  /\ reader.index < Len(event_history)
  /\ reader' = [reader EXCEPT !.index = @ + 1,
                              !.events = Append(@, event_history[reader.index + 1])]
  /\ UNCHANGED <<event_history, rec, next_event, first_event, index_errors, notHist>>

\* get_event_history, line 475: the iterator is exhausted, the list is returned
ReadReturn ==
  /\ reader.pc = "iterating"
  /\ reader.index >= Len(event_history)
  /\ reader' = [reader EXCEPT !.pc = "returned"]
  /\ UNCHANGED <<event_history, rec, next_event, first_event, index_errors, notHist>>

HistNext ==
  \/ \E t \in Recorders : RecordInsert(t)
  \/ \E t \in Recorders : RecordCheckLength(t)
  \/ \E t \in Recorders : RecordPop(t)
  \/ ClearEventHistory
  \/ ReadBegin
  \/ ReadNext
  \/ ReadReturn

SpecHistory == HistInit /\ [][HistNext]_vars

(* --------------------- properties of the event sink ------------------- *)

\* no record_event call is under way
NoRecordInProgress == \A t \in Recorders : rec[t] = "idle"

\* C1: whenever every record_event and clear_event_history call made so far has
\* completed, the history holds at most MAX_EVENT_HISTORY entries, newest first;
\* and once capacity + 1 events were recorded into an empty history, the first
\* of them is gone and the last of them is at the front.
C1_HistoryBounded ==
  NoRecordInProgress =>
    /\ Len(event_history) <= MAX_EVENT_HISTORY
    /\ \A i, j \in 1..Len(event_history) : i < j => event_history[i] > event_history[j]
    /\ (next_event - first_event = MAX_EVENT_HISTORY + 1 =>
          /\ event_history # <<>>
          /\ event_history[1] = next_event - 1
          /\ \A i \in 1..Len(event_history) : event_history[i] # first_event)

\* capacity + 1 events were recorded into the empty history and the calls are over
C1_Witness ==
  /\ NoRecordInProgress
  /\ first_event = 1
  /\ next_event = MAX_EVENT_HISTORY + 2
  /\ Len(event_history) = MAX_EVENT_HISTORY

\* C2: a get_event_history call that runs while record_event calls run in
\* other threads never returns more than MAX_EVENT_HISTORY entries.
C2_ReaderWithinCapacity ==
  reader.pc = "returned" => Len(reader.events) <= MAX_EVENT_HISTORY

\* C18: record_event never raises, whatever clear_event_history does meanwhile:
\* its pop() never meets an empty list.
C18_RecordNeverRaises == ~index_errors

(* ===================== specification SpecListener ===================== *)
(* One BucketListener. One control thread calls start() and stop(), one     *)
(* call after the other; the poll threads that start() creates run _run     *)
(* concurrently with it and with each other. A step is one read or write of *)
(* self.running, one call of _check_for_changes, one sleep. Time is not     *)
(* measured: join(timeout=5) may give up whenever its thread is still       *)
(* alive. _check_for_changes either returns or raises (a failed listing, or *)
(* an exception of the event handler: _run's except clause takes both).     *)

ListenerInit ==
  /\ BktUnused
  /\ DiffUnused
  /\ HistUnused
  /\ SvcUnused
  /\ cfg \in [max_retries : 0..MaxRetries, poll_interval : 1..MaxPollInterval,
              has_error_handler : BOOLEAN]
  /\ running = FALSE
  /\ thread = 0
  /\ caller = [pc |-> "idle", last_start |-> "none", err_calls |-> 0, born_before |-> 0]
  /\ poll = [t \in Threads |-> Unborn]

\* the threads start() has created so far
Born == { t \in Threads : poll[t].pc # "unborn" }

\* a thread object whose run method has not returned
Alive(t) == poll[t].pc \notin {"unborn", "done"}

(* ---- start() ---- *)

\* the history of the last start() is kept until the next call of the control thread
Forget(c) == [c EXCEPT !.last_start = "none", !.err_calls = 0, !.born_before = 0]

\* lines 66-67: start() on a running listener returns at once
StartWhileRunning ==
  /\ caller.pc = "idle"
  /\ running
  /\ caller' = Forget(caller)
  /\ UNCHANGED <<cfg, running, thread, poll, notLsn>>

\* lines 69-74: the flag is set and the initial listing is called
StartBegin ==
  /\ caller.pc = "idle"
  /\ ~running
  /\ running' = TRUE
  /\ caller' = [Forget(caller) EXCEPT !.pc = "start_listing",
                                      !.born_before = Cardinality(Born)]
  /\ UNCHANGED <<cfg, thread, poll, notLsn>>

\* lines 74-76, 86-89: the initial listing returns, the poll thread is created
\* and started
StartListingReturns ==
  /\ caller.pc = "start_listing"
  /\ Cardinality(Born) < MaxThreads
  /\ LET t == Cardinality(Born) + 1 IN
       /\ thread' = t
       /\ poll' = [poll EXCEPT ![t] = [Unborn EXCEPT !.pc = "loop"]]
  /\ caller' = [caller EXCEPT !.pc = "idle", !.last_start = "ok"]
  /\ UNCHANGED <<cfg, running, notLsn>>

\* StopFlag that leaves the flag as it is (a seeded fault for C7)
StopFlagKept(is_running) == is_running

\* line 95: the value stop() gives self.running
StopFlag(is_running) == FALSE

\* lines 77-83: the initial listing raises; the error goes to error_handler
\* (or is printed), then self.stop() clears the flag and joins self.thread
\* when an earlier start() left one
StartListingRaises ==
  /\ caller.pc = "start_listing"
  /\ running' = (IF running THEN StopFlag(running) ELSE running)
  /\ caller' = [caller EXCEPT
       !.pc = IF running /\ thread # 0 THEN "start_stop_join" ELSE "idle",
       !.last_start = "failed",
       !.err_calls = IF cfg.has_error_handler THEN 1 ELSE 0]
  /\ UNCHANGED <<cfg, thread, poll, notLsn>>

(* ---- stop() ---- *)

\* lines 92-93: stop() on a listener that is not running returns at once
StopWhileStopped ==
  /\ caller.pc = "idle"
  /\ ~running
  /\ caller' = Forget(caller)
  /\ UNCHANGED <<cfg, running, thread, poll, notLsn>>

\* lines 95-97: the flag is cleared, then the poll thread is joined
StopBegin ==
  /\ caller.pc = "idle"
  /\ running
  /\ running' = StopFlag(running)
  /\ caller' = [Forget(caller) EXCEPT !.pc = IF thread # 0 THEN "stop_join" ELSE "idle"]
  /\ UNCHANGED <<cfg, thread, poll, notLsn>>

\* line 97: join returns because the thread has ended
JoinThreadEnded ==
  /\ caller.pc \in {"stop_join", "start_stop_join"}
  /\ ~Alive(thread)
  /\ caller' = [caller EXCEPT !.pc = "idle"]
  /\ UNCHANGED <<cfg, running, thread, poll, notLsn>>

\* line 97: join gives up after its timeout, the thread is still alive
JoinTimesOut ==
  /\ caller.pc \in {"stop_join", "start_stop_join"}
  /\ Alive(thread)
  /\ caller' = [caller EXCEPT !.pc = "idle"]
  /\ UNCHANGED <<cfg, running, thread, poll, notLsn>>

(* ---- _run() ---- *)

\* MayRetry off by one: one retry too many (a seeded fault for C5)
MayRetryOffByOne(retries, max_retries, is_running) ==
  retries <= max_retries /\ is_running

\* MayRetry that does not read self.running (a seeded fault for C20)
MayRetryAnyway(retries, max_retries, is_running) == retries < max_retries

\* line 106: the test of the retry loop
MayRetry(retries, max_retries, is_running) ==
  retries < max_retries /\ is_running

\* line 113: the test that sends the last error to error_handler
RetriesExhausted(retries, max_retries) == retries >= max_retries

\* line 101: the test of the outer loop. A true test begins a tick.
LoopTest(t) ==
  /\ poll[t].pc = "loop"
  /\ poll' = [poll EXCEPT ![t] =
       IF running
         THEN [@ EXCEPT !.pc = "check"]
         ELSE [Unborn EXCEPT !.pc = "done"]]
  /\ UNCHANGED <<cfg, running, thread, caller, notLsn>>

\* lines 102-103: the first _check_for_changes of the tick returns
FirstCheckReturns(t) ==
  /\ poll[t].pc = "check"
  /\ poll' = [poll EXCEPT ![t] = [Unborn EXCEPT !.pc = "wait", !.succeeded = TRUE]]
  /\ UNCHANGED <<cfg, running, thread, caller, notLsn>>

\* lines 103-105: the first _check_for_changes of the tick raises
FirstCheckRaises(t) ==
  /\ poll[t].pc = "check"
  /\ poll' = [poll EXCEPT ![t] =
       [Unborn EXCEPT !.pc = "retry_test", !.retries = 0, !.first_failed = TRUE]]
  /\ UNCHANGED <<cfg, running, thread, caller, notLsn>>

\* line 106. retries is read first; running is read only when retries allows
\* another attempt. A false test leaves for the wait of lines 120-123 (retries
\* is dead from there on and is reset).
RetryTest(t) ==
  /\ poll[t].pc = "retry_test"
  /\ poll' = [poll EXCEPT ![t] =
       IF MayRetry(poll[t].retries, cfg.max_retries, running)
         THEN [@ EXCEPT !.pc = "retry_sleep"]
         ELSE [@ EXCEPT !.pc = "wait", !.i = 0, !.retries = 0]]
  /\ UNCHANGED <<cfg, running, thread, caller, notLsn>>

\* line 108: time.sleep(retry_interval)
RetrySleep(t) ==
  /\ poll[t].pc = "retry_sleep"
  /\ poll' = [poll EXCEPT ![t] = [@ EXCEPT !.pc = "retry_check"]]
  /\ UNCHANGED <<cfg, running, thread, caller, notLsn>>

\* lines 109-110: the retried _check_for_changes returns, break
RetryCheckReturns(t) ==
  /\ poll[t].pc = "retry_check"
  /\ poll' = [poll EXCEPT ![t] =
       [@ EXCEPT !.pc = "wait", !.i = 0, !.retries = 0, !.attempts = @ + 1,
                 !.succeeded = TRUE]]
  /\ UNCHANGED <<cfg, running, thread, caller, notLsn>>

\* lines 111-117: the retried _check_for_changes raises
RetryCheckRaises(t) ==
  /\ poll[t].pc = "retry_check"
  /\ LET exhausted == RetriesExhausted(poll[t].retries + 1, cfg.max_retries) IN
     poll' = [poll EXCEPT ![t] =
       [@ EXCEPT !.pc = "retry_test", !.retries = @ + 1, !.attempts = @ + 1,
                 !.err_calls = IF exhausted /\ cfg.has_error_handler THEN @ + 1 ELSE @,
                 !.err_logs = IF exhausted /\ ~cfg.has_error_handler THEN @ + 1 ELSE @]]
  /\ UNCHANGED <<cfg, running, thread, caller, notLsn>>

\* lines 120-123: one round of the wait loop; the flag is read, then one second
\* is slept. The loop ends after poll_interval rounds or when the flag is clear
\* (break). The history of the tick is kept up to the first round.
Wait(t) ==
  /\ poll[t].pc = "wait"
  /\ poll' = [poll EXCEPT ![t] =
       IF ~running THEN [Unborn EXCEPT !.pc = "loop", !.saw_stop = TRUE]
       ELSE IF poll[t].i + 1 >= cfg.poll_interval THEN [Unborn EXCEPT !.pc = "loop"]
       ELSE [Unborn EXCEPT !.pc = "wait", !.i = poll[t].i + 1]]
  /\ UNCHANGED <<cfg, running, thread, caller, notLsn>>

ListenerNext ==
  \/ StartWhileRunning
  \/ StartBegin
  \/ StartListingReturns
  \/ StartListingRaises
  \/ StopWhileStopped
  \/ StopBegin
  \/ JoinThreadEnded
  \/ JoinTimesOut
  \/ \E t \in Threads : LoopTest(t)
  \/ \E t \in Threads : FirstCheckReturns(t)
  \/ \E t \in Threads : FirstCheckRaises(t)
  \/ \E t \in Threads : RetryTest(t)
  \/ \E t \in Threads : RetrySleep(t)
  \/ \E t \in Threads : RetryCheckReturns(t)
  \/ \E t \in Threads : RetryCheckRaises(t)
  \/ \E t \in Threads : Wait(t)

SpecListener == ListenerInit /\ [][ListenerNext]_vars

(* ---------------------- properties of the poll loop ------------------- *)

\* C5: in every tick, the retry attempts made after a failed first attempt
\* number at most max_retries; once an attempt of the tick has returned, the
\* thread is out of the retry loop; and a tick with an attempt that returned
\* has sent nothing to error_handler (and printed no error).
C5_RetriesBoundedAndSilentOnSuccess ==
  \A t \in Threads :
    /\ poll[t].attempts <= cfg.max_retries
    /\ (poll[t].attempts > 0 => poll[t].first_failed)
    /\ (poll[t].succeeded => poll[t].pc \notin {"retry_test", "retry_sleep", "retry_check"})
    /\ (poll[t].succeeded => poll[t].err_calls = 0 /\ poll[t].err_logs = 0)

\* a tick whose first attempt and first retry raised and whose second retry returned
C5_Witness ==
  \E t \in Threads :
    /\ poll[t].pc = "wait"
    /\ poll[t].first_failed
    /\ poll[t].attempts = 2
    /\ poll[t].succeeded
    /\ cfg.has_error_handler
    /\ poll[t].err_calls = 0

\* C6: for every max_retries >= 0, a tick whose first attempt and all
\* max_retries retries raised, on a running listener with an error handler, has
\* called error_handler exactly once when it reaches the wait for the next tick.
C6_ErrorHandlerOnceOnExhaustion ==
  \A t \in Threads :
    ( /\ poll[t].pc = "wait"
      /\ poll[t].first_failed
      /\ ~poll[t].succeeded
      /\ poll[t].attempts = cfg.max_retries
      /\ cfg.has_error_handler
      /\ running )
    => poll[t].err_calls = 1

\* C7: when start() has returned after its initial listing raised, the listener
\* is not running, error_handler (when set) was called exactly once by that
\* start(), and the listener has the poll threads and the thread attribute it
\* had before: a first start() that fails leaves no poll thread at all.
C7_FailedStartLeavesListenerStopped ==
  (caller.pc = "idle" /\ caller.last_start = "failed") =>
    /\ ~running
    /\ caller.err_calls = (IF cfg.has_error_handler THEN 1 ELSE 0)
    /\ Cardinality(Born) = caller.born_before
    /\ thread <= caller.born_before
    /\ (caller.born_before = 0 => thread = 0 /\ \A t \in Threads : poll[t].pc = "unborn")

\* the first start() of a listener with an error handler has failed and returned
C7_Witness ==
  /\ caller.pc = "idle"
  /\ caller.last_start = "failed"
  /\ cfg.has_error_handler
  /\ caller.err_calls = 1
  /\ Born = {}

\* C8: a poll thread that has read the cleared running flag does not begin
\* another tick.
C8_NoTickAfterStopObserved ==
  \A t \in Threads : poll[t].pc = "check" => ~poll[t].saw_stop

\* C15: at most one poll thread of the listener is alive at a time.
C15_OnePollThreadAlive ==
  Cardinality({ t \in Threads : Alive(t) }) <= 1

(* ===================== specification SpecService ====================== *)
(* The registry of S3Service, one call after the other. A call is one       *)
(* action: start_bucket_listener with its validation, the construction of   *)
(* the listener, listener.start() with its initial listing, and the append. *)
(* Of a listener the registry part keeps the running flag and whether its   *)
(* poll thread is alive; SpecListener has the poll loop itself.             *)

\* a BucketListenerConfig as start_bucket_listener reads it
Configs == [has_event_handler : BOOLEAN, has_bucket : BOOLEAN]

ServiceInit ==
  /\ BktUnused
  /\ DiffUnused
  /\ HistUnused
  /\ LsnUnused
  /\ default_bucket \in BOOLEAN
  /\ listeners = <<>>
  /\ lst = [id \in ListenerIds |-> NotConstructed]
  /\ svc_call = NoCall
  /\ req = [r \in Requests |-> NoRequest]

Constructed == { id \in ListenerIds : lst[id].constructed }

\* ConfigError without the bucket validation (a seeded fault for C9)
ConfigErrorHandlerOnly(config, default_set) ==
  IF ~config.has_event_handler THEN "Event handler is required" ELSE "none"

\* lines 419-425: the validation of start_bucket_listener
ConfigError(config, default_set) ==
  IF ~config.has_event_handler THEN "Event handler is required"
  ELSE IF ~(config.has_bucket \/ default_set) THEN "Bucket is required"
  ELSE "none"

\* lines 58-63 and 65-89: BucketListener(self, config) then listener.start(),
\* with an initial listing that returns or raises
StartedListener(listing_ok) ==
  [constructed |-> TRUE, running |-> listing_ok, alive |-> listing_ok]

\* lines 405-434: start_bucket_listener(config) on the registry reg and the
\* listener objects objs; the new registry, objects and the record of the call
StartBucketListenerResult(op, config, listing_ok, reg, objs) ==
  LET error == ConfigError(config, default_bucket)
      id == Cardinality({ x \in ListenerIds : objs[x].constructed }) + 1
      call == [op |-> op, has_event_handler |-> config.has_event_handler,
               has_bucket |-> config.has_bucket, outcome |-> "none", listings |-> 0,
               listing_failed |-> FALSE]
  IN IF error # "none"
       THEN [listeners |-> reg, lst |-> objs,
             call |-> [call EXCEPT !.outcome = "ValueError"]]
       ELSE [listeners |-> Append(reg, id),
             lst |-> [objs EXCEPT ![id] = StartedListener(listing_ok)],
             call |-> [call EXCEPT !.outcome = "returned", !.listings = 1,
                                   !.listing_failed = ~listing_ok]]

\* start_bucket_listener(config)
StartBucketListener(config, listing_ok) ==
  /\ ConfigError(config, default_bucket) = "none" => Cardinality(Constructed) < MaxListeners
  /\ LET r == StartBucketListenerResult("start_bucket_listener", config, listing_ok,
                                        listeners, lst)
     IN /\ listeners' = r.listeners
        /\ lst' = r.lst
        /\ svc_call' = r.call
  /\ UNCHANGED <<default_bucket, req, notSvc>>

\* lines 91-98 for every listener of the registry: stop() clears the flag of
\* a running listener and joins its thread; the threads in late outlive the join
StoppedAll(objs, reg, late) ==
  [id \in ListenerIds |->
     IF (\E n \in 1..Len(reg) : reg[n] = id) /\ objs[id].running
       THEN [objs[id] EXCEPT !.running = FALSE, !.alive = (id \in late)]
       ELSE objs[id]]

\* the listeners of the registry whose poll thread a stop() would join
Joinable(objs, reg) ==
  { id \in ListenerIds : (\E n \in 1..Len(reg) : reg[n] = id) /\ objs[id].running
                          /\ objs[id].alive }

\* lines 436-442: stop_all_listeners()
StopAllListeners ==
  /\ \E late \in SUBSET Joinable(lst, listeners) :
       lst' = StoppedAll(lst, listeners, late)
  /\ listeners' = <<>>
  /\ svc_call' = [NoCall EXCEPT !.op = "stop_all_listeners", !.outcome = "returned"]
  /\ UNCHANGED <<default_bucket, req, notSvc>>

\* lines 483-517: start_bucket_listener_for_bucket(bucket); the config it
\* builds has both handlers set
StartBucketListenerForBucket(bucket_given, listing_ok) ==
  /\ (bucket_given \/ default_bucket) => Cardinality(Constructed) < MaxListeners
  /\ \E late \in SUBSET Joinable(lst, listeners) :
       LET r == StartBucketListenerResult("start_bucket_listener_for_bucket",
                  [has_event_handler |-> TRUE, has_bucket |-> bucket_given], listing_ok,
                  <<>>, StoppedAll(lst, listeners, late))
       IN /\ listeners' = r.listeners
          /\ lst' = r.lst
          /\ svc_call' = r.call
  /\ UNCHANGED <<default_bucket, req, notSvc>>

\* _run of a stopped listener reads the cleared flag at line 101 and returns
PollThreadExits(id) ==
  /\ lst[id].alive
  /\ ~lst[id].running
  /\ lst' = [lst EXCEPT ![id].alive = FALSE]
  /\ UNCHANGED <<default_bucket, listeners, svc_call, req, notSvc>>

ServiceNext ==
  \/ \E config \in Configs, listing_ok \in BOOLEAN : StartBucketListener(config, listing_ok)
  \/ StopAllListeners
  \/ \E bucket_given \in BOOLEAN, listing_ok \in BOOLEAN :
       StartBucketListenerForBucket(bucket_given, listing_ok)
  \/ \E id \in ListenerIds : PollThreadExits(id)

SpecService == ServiceInit /\ [][ServiceNext]_vars

(* ---------------------- properties of the registry -------------------- *)

\* the last call was start_bucket_listener with a config that lacks the event
\* handler, or lacks a bucket while the service has no default bucket
InvalidStart(call) ==
  /\ call.op = "start_bucket_listener"
  /\ (~call.has_event_handler \/ ~(call.has_bucket \/ default_bucket))

\* C9: a start_bucket_listener call with no event handler, or with no bucket
\* and no default bucket, raises ValueError, performs no listing, constructs no
\* listener, starts no thread and leaves the registry as it was.
C9_InvalidConfigChangesNothing ==
  [][ (svc_call' # svc_call /\ InvalidStart(svc_call')) =>
        /\ svc_call'.outcome = "ValueError"
        /\ svc_call'.listings = 0
        /\ listeners' = listeners
        /\ lst' = lst ]_vars

\* a call without a bucket, on a service without default bucket, that held a
\* listener in its registry, has raised
C9_Witness ==
  /\ svc_call.op = "start_bucket_listener"
  /\ svc_call.has_event_handler
  /\ ~svc_call.has_bucket
  /\ ~default_bucket
  /\ svc_call.outcome = "ValueError"
  /\ Len(listeners) = 1

\* C10: a start_bucket_listener or start_bucket_listener_for_bucket call whose
\* listener failed its initial listing raises to the caller.
C10_FailedStartRaises ==
  svc_call.listing_failed => svc_call.outcome = "raised"

(* ===================== specification SpecRequests ===================== *)
(* The registry when every listener is started by                           *)
(* start_bucket_listener_for_bucket, called by concurrent request threads.  *)
(* The method has no lock: a request thread runs stop_all_listeners (line   *)
(* 499), builds the config, and runs start_bucket_listener (line 514), and  *)
(* another request thread can run between the two calls. Each of the two    *)
(* calls is one step here.                                                  *)

RequestsInit ==
  /\ BktUnused
  /\ DiffUnused
  /\ HistUnused
  /\ LsnUnused
  /\ default_bucket \in BOOLEAN
  /\ listeners = <<>>
  /\ lst = [id \in ListenerIds |-> NotConstructed]
  /\ svc_call = NoCall
  /\ req = [r \in Requests |-> NoRequest]

\* line 499: self.stop_all_listeners() of start_bucket_listener_for_bucket(bucket)
ForBucketStopAll(r, bucket_given) ==
  /\ req[r].pc = "idle"
  /\ \E late \in SUBSET Joinable(lst, listeners) :
       lst' = StoppedAll(lst, listeners, late)
  /\ listeners' = <<>>
  /\ req' = [req EXCEPT ![r] = [pc |-> "stopped_all", bucket_given |-> bucket_given]]
  /\ UNCHANGED <<default_bucket, svc_call, notSvc>>

\* lines 502-514: the config with both handlers, then self.start_bucket_listener(config)
ForBucketStart(r, listing_ok) ==
  /\ req[r].pc = "stopped_all"
  /\ (req[r].bucket_given \/ default_bucket) => Cardinality(Constructed) < MaxListeners
  /\ LET res == StartBucketListenerResult("start_bucket_listener_for_bucket",
                  [has_event_handler |-> TRUE, has_bucket |-> req[r].bucket_given],
                  listing_ok, listeners, lst)
     IN /\ listeners' = res.listeners
        /\ lst' = res.lst
        /\ svc_call' = res.call
  /\ req' = [req EXCEPT ![r] = NoRequest]
  /\ UNCHANGED <<default_bucket, notSvc>>

RequestsNext ==
  \/ \E r \in Requests, bucket_given \in BOOLEAN : ForBucketStopAll(r, bucket_given)
  \/ \E r \in Requests, listing_ok \in BOOLEAN : ForBucketStart(r, listing_ok)
  \/ \E id \in ListenerIds : PollThreadExits(id)

SpecRequests == RequestsInit /\ [][RequestsNext]_vars

\* C11: when listeners are started only through start_bucket_listener_for_bucket,
\* at most one poll thread is alive and the registry holds at most one listener.
C11_SingleActiveListener ==
  /\ Cardinality({ id \in ListenerIds : lst[id].alive }) <= 1
  /\ Len(listeners) <= 1

(* ====================== specification SpecBucket ====================== *)
(* create_bucket against an object store that other clients change too.   *)
(* The call makes up to two requests, head_bucket and create_bucket, and    *)
(* the store can change between them; each request is one step.            *)

\* what head_bucket can answer for a name: 200 only for a bucket that exists,
\* 404 only for one that does not, any other failure at any time
HeadAnswers(name) ==
  (IF name \in store THEN {"200"} ELSE {"404"}) \cup {"ClientError", "OtherError"}

\* what the store can answer to a create request: created only when the name is free
CreateAnswers(name) ==
  (IF name \in store THEN {} ELSE {"ok"}) \cup {"ClientError", "OtherError"}

\* lines 379-384: _bucket_exists returns True on an answer, False on a
\* ClientError with code 404, and raises on every other failure
BucketExists(head_answer) ==
  IF head_answer = "200" THEN "True"
  ELSE IF head_answer = "404" THEN "False"
  ELSE "raised"

\* NeedsCreateRequest that ignores the existence check (a seeded fault for C14)
NeedsCreateRequestAlways(exists) == exists \in {"True", "False"}

\* lines 353-357: the create request is issued only when _bucket_exists returned False
NeedsCreateRequest(exists) == exists = "False"

\* lines 357-363: True after the request was answered; a ClientError becomes
\* Exception("Failed to create bucket"), any other exception passes through
CreateOutcome(create_answer) ==
  IF create_answer = "ok" THEN "True" ELSE "raised"

BucketInit ==
  /\ DiffUnused
  /\ HistUnused
  /\ LsnUnused
  /\ SvcUnused
  /\ store \in SUBSET BucketNames
  /\ cb = NoCreate

\* lines 351-355: create_bucket(name) up to the existence check and what follows
\* from it without a further request
CreateBucketCheck(name, head_answer) ==
  /\ cb.pc \in {"idle", "done"}
  /\ head_answer \in HeadAnswers(name)
  /\ LET exists == BucketExists(head_answer)
     IN cb' = IF NeedsCreateRequest(exists)
                THEN [NoCreate EXCEPT !.pc = "checked", !.name = name, !.exists = exists]
                ELSE [NoCreate EXCEPT !.pc = "done", !.name = name, !.exists = exists,
                                      !.outcome = IF exists = "True" THEN "False"
                                                  ELSE "raised"]
  /\ UNCHANGED <<store, notBkt>>

\* lines 357-363: the create request and the end of the call
CreateBucketRequest(create_answer) ==
  /\ cb.pc = "checked"
  /\ create_answer \in CreateAnswers(cb.name)
  /\ store' = IF create_answer = "ok" THEN store \cup {cb.name} ELSE store
  /\ cb' = [cb EXCEPT !.pc = "done", !.create_requests = @ + 1,
                      !.create_answer = create_answer,
                      !.outcome = CreateOutcome(create_answer)]
  /\ UNCHANGED notBkt

\* another client of the store creates or deletes a bucket
StoreChanges(name) ==
  /\ store' = IF name \in store THEN store \ {name} ELSE store \cup {name}
  /\ UNCHANGED <<cb, notBkt>>

BucketNext ==
  \/ \E name \in BucketNames, head_answer \in {"200", "404", "ClientError", "OtherError"} :
       CreateBucketCheck(name, head_answer)
  \/ \E create_answer \in {"ok", "ClientError", "OtherError"} :
       CreateBucketRequest(create_answer)
  \/ \E name \in BucketNames : StoreChanges(name)

SpecBucket == BucketInit /\ [][BucketNext]_vars

\* C14: a create_bucket call that found the bucket existing has returned False
\* and issued no create request; one that found it missing has issued exactly
\* one create request and has returned True when the store accepted it and
\* raised when the store failed it.
C14_CreateBucketContract ==
  cb.pc = "done" =>
    /\ cb.exists = "True" => (cb.outcome = "False" /\ cb.create_requests = 0)
    /\ cb.exists = "False" =>
         /\ cb.create_requests = 1
         /\ cb.create_answer = "ok" => cb.outcome = "True"
         /\ cb.create_answer # "ok" => cb.outcome = "raised"

\* a call on a missing bucket whose create request the store failed has raised
C14_Witness ==
  /\ cb.pc = "done"
  /\ cb.exists = "False"
  /\ cb.create_requests = 1
  /\ cb.create_answer = "ClientError"
  /\ cb.outcome = "raised"

(* ======================= specification SpecTick ======================= *)
(* One BucketListener with the contents of its bucket: start() takes the    *)
(* baseline, the poll thread runs _check_for_changes against listings that  *)
(* the store answers (any listing: other clients change the bucket), and    *)
(* the event handler returns or raises. A sleep is counted in seconds. The  *)
(* listener has an event handler, as start_bucket_listener requires. The    *)
(* control thread calls start() again only when the poll thread of the      *)
(* earlier start() has ended, and the new thread takes its place in poll;   *)
(* the wait between two ticks is one second. SpecListener has the other     *)
(* cases. The steps of start(), stop() and _run() that do not touch the     *)
(* bucket are those of SpecListener.                                        *)

\* the objects of a listing in this specification: one version of each key
TickObject == [ETag |-> 1, LastModified |-> 1, Size |-> SizeOf(1)]

\* what _list_objects can return
TickListings == { s \in Snapshots : \A k \in DOMAIN s : s[k] = TickObject }

TickInit ==
  /\ BktUnused
  /\ HistUnused
  /\ SvcUnused
  /\ cfg \in [max_retries : 0..MaxRetries, poll_interval : {1},
              retry_interval : 0..MaxRetryInterval, has_error_handler : BOOLEAN]
  /\ running = FALSE
  /\ thread = 0
  /\ caller = [pc |-> "idle", last_start |-> "none", err_calls |-> 0, born_before |-> 0]
  /\ poll = [t \in Threads |-> Unborn]
  /\ last_objects = EmptySnapshot
  /\ has_event_handler = TRUE
  /\ dphase = "unused"
  /\ prev_objects = EmptySnapshot
  /\ listing = EmptySnapshot
  /\ delivered = <<>>

\* what the tick specification leaves alone besides the poll loop's variables
tickFrame == <<has_event_handler, dphase, prev_objects, listing, delivered,
               histVars, svcVars, bktVars>>

\* lines 66-74 when no poll thread of this listener is alive
TickStartBegin ==
  /\ \A t \in Threads : ~Alive(t)
  /\ StartBegin

\* lines 75-76: for obj in objects: self.last_objects[obj['Key']] = obj, on the
\* dictionary as it is (start() does not empty it)
StartBaseline(old, objects) ==
  [k \in DOMAIN old \cup DOMAIN objects |->
     IF k \in DOMAIN objects THEN objects[k] ELSE old[k]]

\* lines 74-76, 86-89: the initial listing returns objects, the baseline is
\* stored, the poll thread is created and started. start_stale is history:
\* the keys of the stored baseline that the listing does not hold.
TickStartListingReturns(objects) ==
  /\ caller.pc = "start_listing"
  /\ thread' = 1
  /\ last_objects' = StartBaseline(last_objects, objects)
  /\ poll' = [poll EXCEPT ![1] =
       [Unborn EXCEPT !.pc = "loop", !.att_outcome = "started", !.att_listing = objects,
                      !.start_stale = DOMAIN last_objects' \ DOMAIN objects]]
  /\ caller' = [caller EXCEPT !.pc = "idle", !.last_start = "ok"]
  /\ UNCHANGED <<cfg, running, tickFrame>>

\* CaughtByRun for a handler of listing failures only (a seeded fault for C16)
CaughtByRunListingOnly(failure) == failure = "raised"

\* lines 104 and 111: except Exception takes whatever _check_for_changes
\* raises, the failure of the listing ("raised") and the exception of the
\* event handler ("handler_raised") alike
CaughtByRun(failure) == failure \in {"raised", "handler_raised"}

\* the event types and keys of a sequence of events
Changes(events) == { <<events[n].event_type, events[n].key>> : n \in 1..Len(events) }

\* the changes that occur more than once in a sequence of events
Repeated(events) ==
  { c \in Changes(events) :
      Cardinality({ n \in 1..Len(events) : <<events[n].event_type, events[n].key>> = c }) > 1 }

\* stop() has returned and start() has not been called since
StopReturned == caller.pc = "idle" /\ ~running

\* the history of the tick after an attempt with this outcome that handed
\* these events to the handler; the listing is kept of an attempt that returned
Tally(p, q, outcome, current_map, handed) ==
  [q EXCEPT !.att_outcome = outcome,
            !.att_listing = current_map,
            !.att_delivered = handed,
            !.start_stale = {},
            !.tick_once = p.tick_once \cup Changes(handed),
            !.tick_twice = p.tick_twice \cup (p.tick_once \cap Changes(handed))
                             \cup Repeated(handed),
            !.raised_before = p.raised_before \/ p.raised_last,
            !.raised_last = (outcome = "handler_raised"),
            !.late_attempts = IF StopReturned /\ handed # <<>> THEN p.late_attempts + 1
                              ELSE p.late_attempts,
            !.slept = 0,
            !.blind = 0]

\* lines 102-103 and 109-110: _run after _check_for_changes returned
AfterReturn(p) ==
  IF p.pc = "check"
    THEN [Unborn EXCEPT !.pc = "wait", !.succeeded = TRUE]
    ELSE [p EXCEPT !.pc = "wait", !.i = 0, !.retries = 0, !.attempts = @ + 1,
                   !.succeeded = TRUE]

\* lines 104-105 and 111-117: _run after _check_for_changes raised; an
\* exception that no except clause takes ends the thread
AfterRaise(p, failure) ==
  IF ~CaughtByRun(failure) THEN [Unborn EXCEPT !.pc = "done"]
  ELSE IF p.pc = "check"
    THEN [Unborn EXCEPT !.pc = "retry_test", !.retries = 0, !.first_failed = TRUE]
  ELSE LET exhausted == RetriesExhausted(p.retries + 1, cfg.max_retries) IN
    [p EXCEPT !.pc = "retry_test", !.retries = @ + 1, !.attempts = @ + 1,
              !.err_calls = IF exhausted /\ cfg.has_error_handler THEN @ + 1 ELSE @,
              !.err_logs = IF exhausted /\ ~cfg.has_error_handler THEN @ + 1 ELSE @]

\* BaselineAfterRaise that stores the new listing (a seeded fault for C12)
BaselineAfterRaiseReplaced(old, current_map) == current_map

\* lines 141-142, 156-157, 171-172: an exception of the handler leaves
\* _check_for_changes before line 175, last_objects keeps its value
BaselineAfterRaise(old, current_map) == old

\* lines 125-175: _check_for_changes returns; every event was delivered, then
\* line 175 stored the listing
TickCheckReturns(t, current_map) ==
  /\ poll[t].pc \in {"check", "retry_check"}
  /\ LET handed == Deliver(has_event_handler,
                           ChangeEvents(Bucket, last_objects, current_map)) IN
       poll' = [poll EXCEPT ![t] =
         Tally(poll[t], AfterReturn(poll[t]), "returned", current_map, handed)]
  /\ last_objects' = current_map
  /\ UNCHANGED <<cfg, running, thread, caller, tickFrame>>

\* lines 125-172: the n-th call of event_handler raises
TickCheckHandlerRaises(t, current_map, n) ==
  /\ poll[t].pc \in {"check", "retry_check"}
  /\ has_event_handler
  /\ n \in 1..Len(ChangeEvents(Bucket, last_objects, current_map))
  /\ LET handed == SubSeq(ChangeEvents(Bucket, last_objects, current_map), 1, n) IN
       poll' = [poll EXCEPT ![t] =
         Tally(poll[t], AfterRaise(poll[t], "handler_raised"), "handler_raised",
               EmptySnapshot, handed)]
  /\ last_objects' = BaselineAfterRaise(last_objects, current_map)
  /\ UNCHANGED <<cfg, running, thread, caller, tickFrame>>

\* line 126: _list_objects raises, nothing else of _check_for_changes runs
TickCheckListingRaises(t) ==
  /\ poll[t].pc \in {"check", "retry_check"}
  /\ poll' = [poll EXCEPT ![t] =
       Tally(poll[t], AfterRaise(poll[t], "raised"), "raised", EmptySnapshot, <<>>)]
  /\ UNCHANGED <<cfg, running, thread, caller, last_objects, tickFrame>>

\* line 108: time.sleep(retry_interval), one second at a step, then the call
\* of line 109. The sleep does not read self.running; blind counts its seconds
\* after the flag was cleared.
TickRetrySleep(t) ==
  /\ poll[t].pc = "retry_sleep"
  /\ poll' = [poll EXCEPT ![t] =
       IF poll[t].slept < cfg.retry_interval
         THEN [@ EXCEPT !.slept = @ + 1, !.blind = IF running THEN 0 ELSE @ + 1]
         ELSE [@ EXCEPT !.pc = "retry_check", !.slept = 0, !.blind = 0]]
  /\ UNCHANGED <<cfg, running, thread, caller, notLsn>>

TickNext ==
  \/ StartWhileRunning
  \/ TickStartBegin
  \/ \E objects \in TickListings : TickStartListingReturns(objects)
  \/ StartListingRaises
  \/ StopWhileStopped
  \/ StopBegin
  \/ JoinThreadEnded
  \/ JoinTimesOut
  \/ \E t \in Threads : LoopTest(t)
  \/ \E t \in Threads, current_map \in TickListings : TickCheckReturns(t, current_map)
  \/ \E t \in Threads, current_map \in TickListings, n \in 1..MaxKeys :
       TickCheckHandlerRaises(t, current_map, n)
  \/ \E t \in Threads : TickCheckListingRaises(t)
  \/ \E t \in Threads : RetryTest(t)
  \/ \E t \in Threads : TickRetrySleep(t)
  \/ \E t \in Threads : Wait(t)

SpecTick == TickInit /\ [][TickNext]_vars

(* ------------------- properties of the tick (SpecTick) ---------------- *)

\* this step is a _check_for_changes call of poll thread t
AttemptStep(t) == poll[t].pc \in {"check", "retry_check"} /\ poll'[t] # poll[t]

\* C12: only a _check_for_changes call that returned changes last_objects in the
\* poll loop, to its listing and after it delivered every event of the diff
\* against the snapshot stored until then; a call that raised, and every other
\* step of the poll thread, leaves last_objects as it was.
C12_BaselineOnlyAfterSuccess ==
  [][ \A t \in Threads :
        /\ (AttemptStep(t) /\ poll'[t].att_outcome = "returned") =>
             /\ last_objects' = poll'[t].att_listing
             /\ poll'[t].att_delivered =
                  Deliver(has_event_handler,
                          ChangeEvents(Bucket, last_objects, poll'[t].att_listing))
             /\ poll'[t].pc = "wait"
        /\ (AttemptStep(t) /\ poll'[t].att_outcome # "returned") =>
             last_objects' = last_objects
        /\ (poll'[t] # poll[t] /\ ~AttemptStep(t) /\ Alive(t)) =>
             last_objects' = last_objects ]_vars

\* an attempt whose handler raised was followed, in the same tick, by a retry
\* that returned and delivered the changes
C12_Witness ==
  \E t \in Threads :
    /\ poll[t].pc = "wait"
    /\ poll[t].first_failed
    /\ poll[t].succeeded
    /\ poll[t].raised_before
    /\ poll[t].att_outcome = "returned"
    /\ poll[t].att_delivered # <<>>
    /\ last_objects = poll[t].att_listing

\* C13: once the flag is cleared, a sleeping poll thread sleeps at most one
\* more second before it reads the flag.
C13_StopObservedWithinASecond ==
  \A t \in Threads : poll[t].blind <= 1

\* C16 as stated: after an exception of the event handler the poll thread is
\* not in the retry sequence and no error handler was called.
C16_HandlerExceptionNotCaught ==
  \A t \in Threads :
    poll[t].att_outcome = "handler_raised" =>
      /\ poll[t].pc \notin {"retry_test", "retry_sleep", "retry_check"}
      /\ poll[t].err_calls = 0

\* C16 (amended): an exception of the event handler is caught by the poll loop
\* as a failure of the listing is: after the first attempt it starts the retry
\* sequence, after a retry it counts as a failed retry, and when the retries
\* are exhausted it goes to error_handler (or is printed); the thread goes on.
C16_HandlerExceptionRetried ==
  [][ \A t \in Threads :
        (AttemptStep(t) /\ poll'[t].att_outcome = "handler_raised") =>
          /\ poll'[t].pc = "retry_test"
          /\ poll[t].pc = "check" =>
               (poll'[t].retries = 0 /\ poll'[t].err_calls + poll'[t].err_logs = 0)
          /\ poll[t].pc = "retry_check" =>
               /\ poll'[t].retries = poll[t].retries + 1
               /\ poll'[t].err_calls =
                    poll[t].err_calls
                      + (IF RetriesExhausted(poll'[t].retries, cfg.max_retries)
                            /\ cfg.has_error_handler THEN 1 ELSE 0)
               /\ poll'[t].err_logs =
                    poll[t].err_logs
                      + (IF RetriesExhausted(poll'[t].retries, cfg.max_retries)
                            /\ ~cfg.has_error_handler THEN 1 ELSE 0) ]_vars

\* the exception of the event handler in the last retry has reached error_handler
C16_Witness ==
  \E t \in Threads :
       /\ poll[t].att_outcome = "handler_raised"
       /\ poll[t].pc = "retry_test"
       /\ poll[t].retries = cfg.max_retries
       /\ poll[t].err_calls = 1

\* C17: after a start() that succeeded, the keys of last_objects are the keys
\* of the listing of that start().
C17_BaselineIsStartListing ==
  \A t \in Threads :
    poll[t].att_outcome = "started" =>
      /\ DOMAIN last_objects = DOMAIN poll[t].att_listing
      /\ poll[t].start_stale = {}

\* C19 as stated: in one tick no change (event type and key) is delivered twice.
C19_DeliveredOncePerTick ==
  \A t \in Threads : poll[t].tick_twice = {}

\* C19 (amended): in one tick a change is delivered a second time only after a
\* call of the event handler raised in an earlier attempt of that tick; no
\* attempt delivers a change twice.
C19_RedeliveredOnlyAfterHandlerException ==
  \A t \in Threads : poll[t].tick_twice # {} => poll[t].raised_before

\* a retry has delivered again a change that an earlier attempt of the tick
\* had delivered before its handler raised
C19_Witness ==
  \E t \in Threads :
    /\ poll[t].tick_twice # {}
    /\ poll[t].raised_before
    /\ poll[t].attempts >= 1

====
